---- MODULE Spec2Model ----
(***************************************************************************)
(* BigRational (src/index.ts): an immutable rational number held as a pair *)
(* of bigints (numerator, denominator), denominator never zero.            *)
(*                                                                         *)
(* The state is what a caller holds: two values `a` (the receiver, `this`) *)
(* and `b` (the argument), and `last`, the outcome of the most recent call *)
(* (the value returned or the error thrown).  Every method of the class is *)
(* an action computing `last` from `a` and `b`; Assign is the caller       *)
(* binding a returned value to a variable and calling methods on it.       *)
(***************************************************************************)
EXTENDS Integers, Sequences, FiniteSets, TLC

VARIABLES a, b, last
vars == <<a, b, last>>

(* ---- bounds ----------------------------------------------------------- *)
\* largest magnitude of a numerator or denominator the caller passes to the
\* constructor or keeps in a variable (bigints are unbounded in the code)
MaxMag == 2

(* ---- bigint helpers --------------------------------------------------- *)
Mag(n) == IF n >= 0 THEN n ELSE -n

\* bigint `/` : exact integer division truncating toward zero
Quot(x, y) ==
  LET q == Mag(x) \div Mag(y)
  IN IF (x < 0) = (y < 0) THEN q ELSE -q

(* ---- outcomes of a call ----------------------------------------------- *)
\* a call either returns a value or throws Error(message)
Return(v) == [err |-> "", inst |-> <<v>>]
Throw(msg) == [err |-> msg, inst |-> <<>>]
Failed(o) == o.err # ""
Val(o) == o.inst[1]

InvalidDenominator == "Denominator can't be zero"

(* ---- class BigRational ------------------------------------------------ *)
BigRational_SignNormalized(numerator, denominator) ==
  IF denominator = 0
    THEN Throw(InvalidDenominator)
    ELSE IF denominator < 0
      THEN Return([numerator |-> -numerator, denominator |-> -denominator])
      ELSE Return([numerator |-> numerator, denominator |-> denominator])

BigRational(numerator, denominator) ==
  IF denominator = 0
    THEN Throw(InvalidDenominator)
    ELSE Return([numerator |-> numerator, denominator |-> denominator])

getNumerator(this) == this.numerator
getDenominator(this) == this.denominator
toPair(this) == <<this.numerator, this.denominator>>

abs_NumeratorOnly(this) == BigRational(Mag(this.numerator), this.denominator)

abs(this) == BigRational(Mag(this.numerator), Mag(this.denominator))

negate_BothSigns(this) == BigRational(-this.numerator, -this.denominator)

negate(this) == BigRational(-this.numerator, this.denominator)

add_SumDenominators(this, x) ==
  LET numerator == toPair(x)[1]
      denominator == toPair(x)[2]
      resultingNumerator == numerator * this.denominator + this.numerator * denominator
      resultingDenominator == this.denominator + denominator
  IN BigRational(resultingNumerator, resultingDenominator)

add(this, x) ==
  LET numerator == toPair(x)[1]
      denominator == toPair(x)[2]
      resultingNumerator == numerator * this.denominator + this.numerator * denominator
      resultingDenominator == this.denominator * denominator
  IN BigRational(resultingNumerator, resultingDenominator)

\* this.add(a.negate()): an exception of the inner call propagates
subtract(this, x) ==
  LET negated == negate(x)
  IN IF Failed(negated) THEN negated ELSE add(this, Val(negated))

inverse_Guarded(this) ==
  IF this.numerator = 0 THEN Return(this)
  ELSE BigRational(this.denominator, this.numerator)

inverse(this) == BigRational(this.denominator, this.numerator)

mul_Crossed(this, x) ==
  BigRational(x.numerator * this.denominator, x.denominator * this.numerator)

mul(this, x) ==
  BigRational(x.numerator * this.numerator, x.denominator * this.denominator)

div_NoInverse(this, x) == mul(this, x)

\* this.mul(a.inverse()): an exception of the inner call propagates
div(this, x) ==
  LET inverted == inverse(x)
  IN IF Failed(inverted) THEN inverted ELSE mul(this, Val(inverted))

lte_NoSignCorrection(this, x) ==
  LET numerator == toPair(x)[1]
      denominator == toPair(x)[2]
  IN this.numerator * denominator <= numerator * this.denominator

lte(this, x) ==
  LET numerator == toPair(x)[1]
      denominator == toPair(x)[2]
      crossMultiplicationNegative ==
        \/ (denominator > 0 /\ this.denominator < 0)
        \/ (denominator < 0 /\ this.denominator > 0)
  IN IF crossMultiplicationNegative
       THEN this.numerator * denominator >= numerator * this.denominator
       ELSE this.numerator * denominator <= numerator * this.denominator

lt(this, x) == lte(this, x) /\ ~lte(x, this)

eq_OneSided(this, x) == lte(this, x)

eq(this, x) == lte(this, x) /\ lte(x, this)

gte(this, x) == lte(x, this)

gt(this, x) == lt(x, this)

isPositive(this) ==
  \/ (this.numerator > 0 /\ this.denominator > 0)
  \/ (this.numerator < 0 /\ this.denominator < 0)

isNegative_NotPositive(this) == ~isPositive(this)

isNegative(this) == this.numerator # 0 /\ ~isPositive(this)

(* ---- gcd of the big-integer library, as BigRational.gcd uses it -------- *)
\* binary gcd over the magnitudes: common factors of two are pulled out, the
\* remaining odd parts are subtracted until they meet
RECURSIVE bigIntGcd(_, _)
bigIntGcd(x, y) ==
  LET p == Mag(x)
      q == Mag(y)
  IN IF p = q THEN p
     ELSE IF p = 0 THEN q
     ELSE IF q = 0 THEN p
     ELSE IF p % 2 = 0 /\ q % 2 = 0 THEN 2 * bigIntGcd(p \div 2, q \div 2)
     ELSE IF p % 2 = 0 THEN bigIntGcd(p \div 2, q)
     ELSE IF q % 2 = 0 THEN bigIntGcd(p, q \div 2)
     ELSE IF p > q THEN bigIntGcd(q, p - q)
     ELSE bigIntGcd(p, q - p)

\* decimal text of a bigint: an optional "-" and the digits, most significant first
DigitChars == <<"0", "1", "2", "3", "4", "5", "6", "7", "8", "9">>

RECURSIVE digitsOf(_)
digitsOf(n) ==
  IF n < 10 THEN <<DigitChars[n + 1]>>
  ELSE Append(digitsOf(n \div 10), DigitChars[(n % 10) + 1])

toDecimalString(n) == IF n < 0 THEN <<"-">> \o digitsOf(-n) ELSE digitsOf(n)

digitValue(c) == (CHOOSE i \in 1..10 : DigitChars[i] = c) - 1

RECURSIVE parseDigits(_)
parseDigits(s) ==
  IF Len(s) = 0 THEN 0
  ELSE 10 * parseDigits(SubSeq(s, 1, Len(s) - 1)) + digitValue(s[Len(s)])

\* BigInt("...") of a decimal text
parseBigInt(s) ==
  IF Len(s) > 0 /\ s[1] = "-" THEN -parseDigits(Tail(s)) ELSE parseDigits(s)

gcd_FirstArgument(x, y) == IF x = 0 THEN Mag(y) ELSE Mag(x)

\* BigInt(gcd(a, b).toString())
gcd(x, y) == parseBigInt(toDecimalString(bigIntGcd(x, y)))

reduce(this) ==
  LET numerator == toPair(this)[1]
      denominator == toPair(this)[2]
      divisor == gcd(numerator, denominator)
  IN BigRational(Quot(numerator, divisor), Quot(denominator, divisor))

(* ---- the caller --------------------------------------------------------- *)
Rational(n, d) == [numerator |-> n, denominator |-> d]

\* argument pairs the test-suite and the README construct values from
Examples ==
  { <<5, 2>>, <<3, 4>>, <<10, 20>>, <<10, 4>>, <<0, 5>>, <<2, 3>>, <<5, 0>>,
    <<-5, 2>>, <<-5, -2>>, <<5, -2>>, <<0, 2>>, <<5, 6>> }

\* argument pairs passed to the constructor
Arguments == ((-MaxMag..MaxMag) \X (-MaxMag..MaxMag)) \cup Examples

\* the values a caller holds in a variable
Held == { Rational(p[1], p[2]) : p \in { q \in Arguments : q[2] # 0 } }

NoCall ==
  [op |-> "none", args |-> <<>>, err |-> "", inst |-> <<>>, bool |-> <<>>, ints |-> <<>>]

\* the outcome of a call returning a BigRational (or throwing)
Called(name, o) == [NoCall EXCEPT !.op = name, !.err = o.err, !.inst = o.inst]
\* the outcome of a call returning a boolean
Answered(name, v) == [NoCall EXCEPT !.op = name, !.bool = <<v>>]
\* the outcome of a call returning bigints
Read(name, v) == [NoCall EXCEPT !.op = name, !.ints = v]

Init ==
  /\ a \in Held
  /\ b \in Held
  /\ last = NoCall

\* new BigRational(n, d)
Construct(n, d) ==
  /\ last' = [Called("new", BigRational(n, d)) EXCEPT !.args = <<n, d>>]
  /\ UNCHANGED <<a, b>>

\* const a = <the value just returned>
AssignA ==
  /\ Len(last.inst) = 1
  /\ last.inst[1] \in Held
  /\ a' = last.inst[1]
  /\ last' = NoCall
  /\ UNCHANGED b

\* const b = <the value just returned>
AssignB ==
  /\ Len(last.inst) = 1
  /\ last.inst[1] \in Held
  /\ b' = last.inst[1]
  /\ last' = NoCall
  /\ UNCHANGED a

GetNumerator == last' = Read("getNumerator", <<getNumerator(a)>>) /\ UNCHANGED <<a, b>>
GetDenominator == last' = Read("getDenominator", <<getDenominator(a)>>) /\ UNCHANGED <<a, b>>
ToPair == last' = Read("toPair", toPair(a)) /\ UNCHANGED <<a, b>>

Abs == last' = Called("abs", abs(a)) /\ UNCHANGED <<a, b>>
Negate == last' = Called("negate", negate(a)) /\ UNCHANGED <<a, b>>
Add == last' = Called("add", add(a, b)) /\ UNCHANGED <<a, b>>
Subtract == last' = Called("subtract", subtract(a, b)) /\ UNCHANGED <<a, b>>
Inverse == last' = Called("inverse", inverse(a)) /\ UNCHANGED <<a, b>>
Mul == last' = Called("mul", mul(a, b)) /\ UNCHANGED <<a, b>>
Div == last' = Called("div", div(a, b)) /\ UNCHANGED <<a, b>>
Reduce == last' = Called("reduce", reduce(a)) /\ UNCHANGED <<a, b>>

Lte == last' = Answered("lte", lte(a, b)) /\ UNCHANGED <<a, b>>
Lt == last' = Answered("lt", lt(a, b)) /\ UNCHANGED <<a, b>>
Eq == last' = Answered("eq", eq(a, b)) /\ UNCHANGED <<a, b>>
Gte == last' = Answered("gte", gte(a, b)) /\ UNCHANGED <<a, b>>
Gt == last' = Answered("gt", gt(a, b)) /\ UNCHANGED <<a, b>>
IsPositive == last' = Answered("isPositive", isPositive(a)) /\ UNCHANGED <<a, b>>
IsNegative == last' = Answered("isNegative", isNegative(a)) /\ UNCHANGED <<a, b>>

Next ==
  \/ \E p \in Arguments : Construct(p[1], p[2])
  \/ AssignA
  \/ AssignB
  \/ GetNumerator
  \/ GetDenominator
  \/ ToPair
  \/ Abs
  \/ Negate
  \/ Add
  \/ Subtract
  \/ Inverse
  \/ Mul
  \/ Div
  \/ Reduce
  \/ Lte
  \/ Lt
  \/ Eq
  \/ Gte
  \/ Gt
  \/ IsPositive
  \/ IsNegative

Spec == Init /\ [][Next]_vars

(* ======================================================================= *)
(* Properties                                                              *)
(* ======================================================================= *)
Returned == Len(last.inst) = 1
Result == last.inst[1]

\* C1: new BigRational(n, d) throws "Denominator can't be zero" exactly when
\* d = 0; for every other d, of either sign, and every n it returns a value
\* whose getNumerator(), getDenominator() and toPair() are n and d verbatim
\* (no reduction, no sign normalization).
ConstructionContract ==
  last.op = "new" =>
    LET n == last.args[1]
        d == last.args[2]
    IN /\ Failed(last) <=> d = 0
       /\ Failed(last) => last.err = InvalidDenominator /\ ~Returned
       /\ d # 0 =>
            /\ Returned
            /\ getNumerator(Result) = n
            /\ getDenominator(Result) = d
            /\ toPair(Result) = <<n, d>>

\* a zero numerator over a negative denominator was constructed and kept as given
ConstructionWitness ==
  /\ last.op = "new"
  /\ last.args = <<0, -2>>
  /\ Returned
  /\ toPair(Result) = <<0, -2>>

TotalOperations ==
  { "add", "subtract", "mul", "abs", "negate", "reduce",
    "lte", "lt", "eq", "gte", "gt" }

\* C2: every value that exists (held by the caller or just returned) has a
\* nonzero denominator; add, subtract, mul, abs, negate, reduce and the
\* comparisons never throw; only the constructor, inverse and div can.
DenominatorNeverZero ==
  /\ a.denominator # 0
  /\ b.denominator # 0
  /\ \A i \in 1..Len(last.inst) : last.inst[i].denominator # 0
  /\ last.op \in TotalOperations => ~Failed(last)
  /\ last.op \in TotalOperations => (Returned \/ Len(last.bool) = 1)
  /\ Failed(last) => last.op \in {"new", "inverse", "div"}

\* a value subtracted from itself, over a negative denominator: zero is returned
DenominatorWitness ==
  /\ last.op = "subtract"
  /\ a = b
  /\ a.denominator < 0
  /\ Returned
  /\ Result.numerator = 0
  /\ Result.denominator # 0

\* C3: inverse() throws the constructor's error exactly when the numerator is 0
\* and otherwise returns (denominator, numerator); a.div(b) throws that error
\* exactly when b's numerator is 0 and otherwise returns
\* (a.numerator * b.denominator, a.denominator * b.numerator); a failing call
\* returns no value.
InverseDivContract ==
  /\ last.op = "inverse" =>
       /\ Failed(last) <=> a.numerator = 0
       /\ Failed(last) => last.err = InvalidDenominator /\ ~Returned
       /\ a.numerator # 0 => last.inst = <<Rational(a.denominator, a.numerator)>>
  /\ last.op = "div" =>
       /\ Failed(last) <=> b.numerator = 0
       /\ Failed(last) => last.err = InvalidDenominator /\ ~Returned
       /\ b.numerator # 0 =>
            last.inst = <<Rational(a.numerator * b.denominator,
                                   a.denominator * b.numerator)>>

\* (2, 3).div((0, 5)) threw
InverseDivWitness ==
  /\ last.op = "div"
  /\ a = Rational(2, 3)
  /\ b = Rational(0, 5)
  /\ last.err = InvalidDenominator
  /\ ~Returned

(* ---- the rational numbers, for comparison with the code ----------------- *)
\* n/d written over a positive denominator
OverPositive(x) ==
  IF x.denominator < 0 THEN Rational(-x.numerator, -x.denominator) ELSE x

\* x <= y as rational numbers
RationalLeq(x, y) ==
  LET p == OverPositive(x)
      q == OverPositive(y)
  IN p.numerator * q.denominator <= q.numerator * p.denominator

\* the same number written with both signs flipped
Flip(x) == Rational(-x.numerator, -x.denominator)

Divides(g, n) == Mag(n) % g = 0

\* the greatest common divisor of two integers not both zero
GreatestCommonDivisor(x, y) ==
  LET common == { g \in 1..(Mag(x) + Mag(y)) : Divides(g, x) /\ Divides(g, y) }
  IN CHOOSE g \in common : \A h \in common : h <= g

InLowestTerms(x) == GreatestCommonDivisor(x.numerator, x.denominator) = 1

ExactlyOne(p, q, r) ==
  \/ (p /\ ~q /\ ~r)
  \/ (~p /\ q /\ ~r)
  \/ (~p /\ ~q /\ r)

\* C4: a.lte(b) is true exactly when a is at most b as rational numbers,
\* whatever the signs of the denominators and reduced or not; so lte is
\* reflexive, total and transitive, and a.gte(b) is b.lte(a).
LteIsRationalOrder ==
  /\ last.op = "lte" => last.bool = <<RationalLeq(a, b)>>
  /\ last.op = "gte" => last.bool = <<lte(b, a)>> /\ last.bool = <<RationalLeq(b, a)>>
  /\ lte(a, a) /\ lte(b, b)
  /\ lte(a, b) \/ lte(b, a)
  /\ Returned =>
       \A x, y, z \in {a, b, Result} : lte(x, y) /\ lte(y, z) => lte(x, z)

\* a value over a negative denominator compared below one over a positive one
LteWitness ==
  /\ last.op = "lte"
  /\ a.denominator < 0
  /\ b.denominator > 0
  /\ a.numerator > 0
  /\ b.numerator > 0
  /\ last.bool = <<TRUE>>

\* C5: exactly one of a.lt(b), a.eq(b), a.gt(b) is true, and flipping the signs
\* of both numerator and denominator of an operand changes none of them:
\* (1, 2) eq (-1, -2), and (5, 2) eq (10, 4).
Trichotomy ==
  /\ ExactlyOne(lt(a, b), eq(a, b), gt(a, b))
  /\ last.op = "lt" =>
       /\ last.bool = <<lt(Flip(a), b)>>
       /\ last.bool = <<lt(a, Flip(b))>>
       /\ last.bool = <<lt(Flip(a), Flip(b))>>
       /\ last.bool[1] => ~eq(a, b) /\ ~gt(a, b)
  /\ last.op = "eq" =>
       /\ last.bool = <<eq(Flip(a), b)>>
       /\ last.bool = <<eq(a, Flip(b))>>
       /\ last.bool = <<eq(Flip(a), Flip(b))>>
       /\ last.bool[1] => ~lt(a, b) /\ ~gt(a, b)
       /\ (a = Rational(1, 2) /\ b = Rational(-1, -2)) => last.bool = <<TRUE>>
       /\ (a = Rational(5, 2) /\ b = Rational(10, 4)) => last.bool = <<TRUE>>
  /\ last.op = "gt" =>
       /\ last.bool = <<gt(Flip(a), b)>>
       /\ last.bool = <<gt(a, Flip(b))>>
       /\ last.bool = <<gt(Flip(a), Flip(b))>>
       /\ last.bool[1] => ~eq(a, b) /\ ~lt(a, b)

\* (1, 2).eq((-1, -2)) answered true
TrichotomyWitness ==
  /\ last.op = "eq"
  /\ a = Rational(1, 2)
  /\ b = Rational(-1, -2)
  /\ last.bool = <<TRUE>>

\* C6: a.add(b) returns exactly (b.numerator * a.denominator + a.numerator *
\* b.denominator, a.denominator * b.denominator), unreduced, so (5,2).add((3,4))
\* is (26, 8); a.mul(b) returns exactly (b.numerator * a.numerator,
\* b.denominator * a.denominator).
AddMulStoredPair ==
  /\ last.op = "add" =>
       /\ last.inst = <<Rational(b.numerator * a.denominator + a.numerator * b.denominator,
                                  a.denominator * b.denominator)>>
       /\ (a = Rational(5, 2) /\ b = Rational(3, 4)) => last.inst = <<Rational(26, 8)>>
  /\ last.op = "mul" =>
       last.inst = <<Rational(b.numerator * a.numerator, b.denominator * a.denominator)>>

\* (5, 2).add((3, 4)) returned (26, 8)
AddMulWitness ==
  /\ last.op = "add"
  /\ a = Rational(5, 2)
  /\ b = Rational(3, 4)
  /\ last.inst = <<Rational(26, 8)>>

\* C7: a.reduce() never throws and returns (n / g, d / g) for g the greatest
\* common divisor of |n| and |d|, which is positive and divides both exactly;
\* the result is eq-equal to a and in lowest terms; (10, 20) reduces to (1, 2).
ReduceToLowestTerms ==
  last.op = "reduce" =>
    LET n == a.numerator
        d == a.denominator
        g == GreatestCommonDivisor(Mag(n), Mag(d))
    IN /\ ~Failed(last)
       /\ Returned
       /\ g > 0
       /\ Divides(g, n)
       /\ Divides(g, d)
       /\ gcd(n, d) = g
       /\ Returned =>
            /\ Result.numerator * g = n
            /\ Result.denominator * g = d
            /\ eq(Result, a)
            /\ eq(a, Result)
            /\ InLowestTerms(Result)
            /\ a = Rational(10, 20) => Result = Rational(1, 2)

\* (10, 20).reduce() returned (1, 2)
ReduceWitness ==
  /\ last.op = "reduce"
  /\ a = Rational(10, 20)
  /\ last.inst = <<Rational(1, 2)>>

\* C8: reduce() yields the canonical representation: whenever a.eq(b), the
\* pairs stored in a.reduce() and b.reduce() are identical.
ReduceIsCanonical ==
  (last.op = "reduce" /\ eq(a, b)) => last.inst = reduce(b).inst

\* C9: the results of add, subtract and div are stored in lowest terms without
\* reduce() being called: (3, 4).add((5, 6)) is 19/12, (3, 4).subtract((5, 6))
\* is -1/12 and (3, 4).div((5, 6)) is 9/10.
AutomaticallySimplified ==
  (last.op \in {"add", "subtract", "div"} /\ Returned) =>
    /\ InLowestTerms(Result)
    /\ (a = Rational(3, 4) /\ b = Rational(5, 6)) =>
         /\ last.op = "add" => Result = Rational(19, 12)
         /\ last.op = "subtract" => Result = Rational(-1, 12)
         /\ last.op = "div" => Result = Rational(9, 10)

\* C10: whenever b's numerator is nonzero a.div(b).mul(b).eq(a) is true, and
\* a.mul(b).eq(b.mul(a)) is always true.
DivMulRoundTrip ==
  /\ (last.op = "div" /\ b.numerator # 0) =>
       /\ Returned
       /\ Returned =>
            /\ ~Failed(mul(Result, b))
            /\ eq(Val(mul(Result, b)), a)
  /\ last.op = "mul" =>
       /\ Returned
       /\ ~Failed(mul(b, a))
       /\ Returned => eq(Result, Val(mul(b, a)))

\* a negative value was divided by one over a negative denominator
DivMulWitness ==
  /\ last.op = "div"
  /\ a.numerator < 0
  /\ b.denominator < 0
  /\ b.numerator > 0
  /\ Returned
  /\ eq(Val(mul(Result, b)), a)

\* C11: a.subtract(b) returns the same stored pair as a.add(b.negate()), which
\* is (a.numerator * b.denominator - b.numerator * a.denominator,
\* a.denominator * b.denominator); negate() flips the sign of the numerator
\* only and leaves the denominator as it is; a.add(b).eq(b.add(a)) is true.
SubtractIsAddNegate ==
  /\ last.op = "subtract" =>
       /\ Returned
       /\ last.inst = <<Rational(a.numerator * b.denominator - b.numerator * a.denominator,
                                  a.denominator * b.denominator)>>
       /\ last.inst = add(a, Rational(-b.numerator, b.denominator)).inst
  /\ last.op = "negate" =>
       last.inst = <<Rational(-a.numerator, a.denominator)>>
  /\ last.op = "add" =>
       /\ Returned
       /\ ~Failed(add(b, a))
       /\ Returned => eq(Result, Val(add(b, a)))

\* (5, 2).subtract((3, 4)) returned (14, 8)
SubtractWitness ==
  /\ last.op = "subtract"
  /\ a = Rational(5, 2)
  /\ b = Rational(3, 4)
  /\ last.inst = <<Rational(14, 8)>>

\* C12: for every value exactly one of these holds: isPositive() is true,
\* isNegative() is true, or the numerator is 0; isPositive() is true exactly
\* when numerator and denominator are both > 0 or both < 0, and a zero
\* numerator over any denominator is neither positive nor negative.
SignPredicates ==
  /\ ExactlyOne(isPositive(a), isNegative(a), a.numerator = 0)
  /\ last.op = "isPositive" =>
       /\ last.bool = <<(a.numerator * a.denominator > 0)>>
       /\ last.bool[1] => ~isNegative(a) /\ a.numerator # 0
       /\ a.numerator = 0 => last.bool = <<FALSE>>
  /\ last.op = "isNegative" =>
       /\ last.bool = <<(a.numerator * a.denominator < 0)>>
       /\ last.bool[1] => ~isPositive(a) /\ a.numerator # 0
       /\ a.numerator = 0 => last.bool = <<FALSE>>

\* zero over a negative denominator was asked isNegative() and answered false
SignWitness ==
  /\ last.op = "isNegative"
  /\ a.numerator = 0
  /\ a.denominator < 0
  /\ last.bool = <<FALSE>>

\* C13: with zero = (0, 1), a.isPositive() equals a.gt(zero) and a.isNegative()
\* equals a.lt(zero); a.abs() has numerator |numerator| and denominator
\* |denominator|, is never negative, is eq-equal to a when a is not negative
\* and eq-equal to a.negate() when a is negative.
SignsAgreeWithOrder ==
  LET zero == Rational(0, 1)
  IN /\ last.op = "isPositive" => last.bool = <<gt(a, zero)>>
     /\ last.op = "isNegative" => last.bool = <<lt(a, zero)>>
     /\ last.op = "abs" =>
          /\ last.inst = <<Rational(Mag(a.numerator), Mag(a.denominator))>>
          /\ Returned =>
               /\ ~isNegative(Result)
               /\ ~isNegative(a) => eq(Result, a)
               /\ isNegative(a) =>
                    /\ ~Failed(negate(a))
                    /\ eq(Result, Val(negate(a)))

\* (5, -2), a negative value, returned (5, 2) from abs()
SignsAgreeWitness ==
  /\ last.op = "abs"
  /\ a = Rational(5, -2)
  /\ isNegative(a)
  /\ last.inst = <<Rational(5, 2)>>
  /\ eq(Result, Val(negate(a)))
====
